---- MODULE Spec2Model ----
(***************************************************************************)
(* XDR decoding (src/de.rs): the XDRIn implementations of the primitive    *)
(* types, String, Vec<u8> and Vec<T>, and the bounded readers              *)
(* read_fixed_opaque, read_var_opaque, read_fixed_array, read_var_array    *)
(* and read_var_string.                                                    *)
(*                                                                         *)
(* Every decoder is a pure function of the borrowed byte slice.  The state *)
(* machine draws the slice (and the build profile) in Init; each action is *)
(* one call of one decoder on that slice and records what the call did:    *)
(* Ok((value, read)), Err(error), or a panic (slice index out of range,    *)
(* unwrap of an Err, arithmetic overflow with overflow checks on).         *)
(*                                                                         *)
(* Numbers.  u32, u64 and usize values do not fit TLC's integers, so an    *)
(* unsigned number is four 16-bit limbs, least significant first.  An i32  *)
(* is an ordinary integer; an i64 is [hi, lo] with value hi * 2^32 + lo,   *)
(* hi a signed 32-bit integer and lo an unsigned 32-bit number.  usize is  *)
(* 64 bits wide.                                                           *)
(*                                                                         *)
(* Slices.  A slice is [head, len]: head holds its first bytes explicitly  *)
(* and every byte from Len(head) up to len is 0x00, so that slices longer  *)
(* than 2^32 bytes can be decoded as well.                                 *)
(***************************************************************************)
EXTENDS Integers, Sequences

VARIABLES
    buffer,           \* the slice handed to the decoder
    overflow_checks,  \* build profile: TRUE panics on overflow, FALSE wraps
    call,             \* the decoder called and its arguments
    result            \* what the call did

vars == <<buffer, overflow_checks, call, result>>

----------------------------------------------------------------------------
(* Bounds of the model *)

\* longest explicit part of a slice, in bytes
MaxLen == 12

\* longest explicit part of a slice that is followed by 2^32 zero bytes
MaxHugeHead == 4

----------------------------------------------------------------------------
(* Unsigned numbers as limbs *)

Base == 2^16

Zero == <<0, 0, 0, 0>>

\* the number n, for 0 <= n < 2^31
Nat64(n) == <<n % Base, n \div Base, 0, 0>>

\* the integer value of a number known to be small
ToNat(a) == a[1] + a[2] * Base

\* a < b
Lt(a, b) ==
    IF a[4] # b[4] THEN a[4] < b[4]
    ELSE IF a[3] # b[3] THEN a[3] < b[3]
    ELSE IF a[2] # b[2] THEN a[2] < b[2]
    ELSE a[1] < b[1]

Le(a, b) == ~Lt(b, a)

\* a + b in 64 bits
Add(a, b) ==
    LET s1 == a[1] + b[1]
        s2 == a[2] + b[2] + s1 \div Base
        s3 == a[3] + b[3] + s2 \div Base
        s4 == a[4] + b[4] + s3 \div Base
    IN  <<s1 % Base, s2 % Base, s3 % Base, s4 % Base>>

\* a - b, for b <= a
Sub(a, b) ==
    LET d1 == a[1] - b[1]
        d2 == a[2] - b[2] - (IF d1 < 0 THEN 1 ELSE 0)
        d3 == a[3] - b[3] - (IF d2 < 0 THEN 1 ELSE 0)
        d4 == a[4] - b[4] - (IF d3 < 0 THEN 1 ELSE 0)
    IN  <<d1 % Base, d2 % Base, d3 % Base, d4 % Base>>

\* a % 4
Mod4(a) == a[1] % 4

\* does a fit 32 bits
FitsU32(a) == a[3] = 0 /\ a[4] = 0

\* a truncated to 32 bits
WrapU32(a) == <<a[1], a[2], 0, 0>>

----------------------------------------------------------------------------
(* Slices *)

MkBuf(h, n) == [head |-> h, len |-> n]

\* s[i], for i < s.len (i an integer, counted from 0)
At(s, i) == IF i < Len(s.head) THEN s.head[i + 1] ELSE 0

\* the explicit part of s[from..to]
HeadOf(s, from, to) ==
    LET hl == Len(s.head)
        f  == IF Lt(from, Nat64(hl)) THEN ToNat(from) ELSE hl
        t  == IF Lt(to, Nat64(hl)) THEN ToNat(to) ELSE hl
    IN  SubSeq(s.head, f + 1, t)

\* &s[from..to], for from <= to <= s.len
Slice(s, from, to) == MkBuf(HeadOf(s, from, to), Sub(to, from))

\* does &s[from..to] index out of range
SliceFails(s, from, to) == Lt(to, from) \/ Lt(s.len, to)

----------------------------------------------------------------------------
(* Results *)

Ok(v, n) == [tag |-> "Ok", val |-> v, read |-> n]

Err(e) == [tag |-> "Err", err |-> e]

Panic(w) == [tag |-> "Panic", why |-> w]

IsOk(r) == r.tag = "Ok"

----------------------------------------------------------------------------
(* Primitive decoders *)

\* arr4!(s): [s[0], s[1], s[2], s[3]]
arr4(s) == <<At(s, 0), At(s, 1), At(s, 2), At(s, 3)>>

\* arr8!(s): [s[0], ..., s[7]]
arr8(s) ==
    <<At(s, 0), At(s, 1), At(s, 2), At(s, 3), At(s, 4), At(s, 5), At(s, 6), At(s, 7)>>

\* u32::from_le_bytes, the bytes taken in the opposite order
u32_from_le_bytes(b) == <<b[2] * 256 + b[1], b[4] * 256 + b[3], 0, 0>>

\* u32::from_be_bytes
u32_from_be_bytes(b) == <<b[3] * 256 + b[4], b[1] * 256 + b[2], 0, 0>>

\* i32::from_be_bytes (two's complement)
i32_from_be_bytes(b) ==
    (IF b[1] >= 128 THEN b[1] - 256 ELSE b[1]) * 16777216
        + b[2] * 65536 + b[3] * 256 + b[4]

\* u64::from_be_bytes
u64_from_be_bytes(b) ==
    <<b[7] * 256 + b[8], b[5] * 256 + b[6], b[3] * 256 + b[4], b[1] * 256 + b[2]>>

\* i64::from_be_bytes (two's complement)
i64_from_be_bytes(b) ==
    [hi |-> i32_from_be_bytes(<<b[1], b[2], b[3], b[4]>>),
     lo |-> u32_from_be_bytes(<<b[5], b[6], b[7], b[8]>>)]

\* f32::from_bits / f64::from_bits: the value with that bit pattern
from_bits(u) == [bits |-> u]

\* impl XDRIn for ()
unit_read_xdr(buf) == Ok("()", Zero)

\* impl XDRIn for i32
i32_read_xdr(buf) ==
    IF Lt(buf.len, Nat64(4)) THEN Err("IntegerBadFormat")
    ELSE Ok(i32_from_be_bytes(arr4(buf)), Nat64(4))

\* bool::read_xdr with the error of i32::read_xdr passed on (i32::read_xdr(buffer)?)
bool_read_xdr_propagating(buf) ==
    LET r == i32_read_xdr(buf)
    IN  IF ~IsOk(r) THEN r
        ELSE IF r.val = 1 /\ r.read = Nat64(4) THEN Ok(TRUE, Nat64(4))
        ELSE IF r.val = 0 /\ r.read = Nat64(4) THEN Ok(FALSE, Nat64(4))
        ELSE Err("BoolBadFormat")

\* impl XDRIn for bool
bool_read_xdr(buf) ==
    LET r == i32_read_xdr(buf)
    IN  IF IsOk(r) /\ r.val = 1 /\ r.read = Nat64(4) THEN Ok(TRUE, Nat64(4))
        ELSE IF IsOk(r) /\ r.val = 0 /\ r.read = Nat64(4) THEN Ok(FALSE, Nat64(4))
        ELSE Err("BoolBadFormat")

\* u32::read_xdr reporting the error of the signed decoder
u32_read_xdr_signed_error(buf) ==
    IF Lt(buf.len, Nat64(4)) THEN Err("IntegerBadFormat")
    ELSE Ok(u32_from_be_bytes(arr4(buf)), Nat64(4))

\* impl XDRIn for u32
u32_read_xdr(buf) ==
    IF Lt(buf.len, Nat64(4)) THEN Err("UnsignedIntegerBadFormat")
    ELSE Ok(u32_from_be_bytes(arr4(buf)), Nat64(4))

\* impl XDRIn for i64
i64_read_xdr(buf) ==
    IF Lt(buf.len, Nat64(8)) THEN Err("HyperBadFormat")
    ELSE Ok(i64_from_be_bytes(arr8(buf)), Nat64(8))

\* impl XDRIn for u64
u64_read_xdr(buf) ==
    IF Lt(buf.len, Nat64(8)) THEN Err("UnsignedHyperBadFormat")
    ELSE Ok(u64_from_be_bytes(arr8(buf)), Nat64(8))

\* impl XDRIn for f32
f32_read_xdr(buf) ==
    IF Lt(buf.len, Nat64(4)) THEN Err("FloatBadFormat")
    ELSE Ok(from_bits(u32_from_be_bytes(arr4(buf))), Nat64(4))

\* impl XDRIn for f64
f64_read_xdr(buf) ==
    IF Lt(buf.len, Nat64(8)) THEN Err("DoubleBadFormat")
    ELSE Ok(from_bits(u64_from_be_bytes(arr8(buf))), Nat64(8))

----------------------------------------------------------------------------
(* Strings and opaque bytes *)

\* a continuation byte of a UTF-8 sequence
Cont(b) == b >= 128 /\ b <= 191

\* std::str::from_utf8(h).is_ok(), h a sequence of bytes read from index i
RECURSIVE utf8_from(_, _)
utf8_from(h, i) ==
    LET n  == Len(h)
        b0 == h[i]
        b1 == h[i + 1]
    IN  IF i > n THEN TRUE
        ELSE IF b0 < 128 THEN utf8_from(h, i + 1)
        ELSE IF b0 >= 194 /\ b0 <= 223
            THEN i + 1 <= n /\ Cont(b1) /\ utf8_from(h, i + 2)
        ELSE IF b0 >= 224 /\ b0 <= 239
            THEN /\ i + 2 <= n
                 /\ Cont(b1) /\ Cont(h[i + 2])
                 /\ (b0 = 224 => b1 >= 160)
                 /\ (b0 = 237 => b1 <= 159)
                 /\ utf8_from(h, i + 3)
        ELSE IF b0 >= 240 /\ b0 <= 244
            THEN /\ i + 3 <= n
                 /\ Cont(b1) /\ Cont(h[i + 2]) /\ Cont(h[i + 3])
                 /\ (b0 = 240 => b1 >= 144)
                 /\ (b0 = 244 => b1 <= 143)
                 /\ utf8_from(h, i + 4)
        ELSE FALSE

\* std::str::from_utf8(s).is_ok(): the bytes past the head are NUL characters
from_utf8_ok(s) == utf8_from(s.head, 1)

\* read + (4 - read % 4) % 4 in u64
pad_u64(read) == Add(read, Nat64((4 - Mod4(read)) % 4))

\* impl XDRIn for String
String_read_xdr(buf) ==
    LET p    == u32_read_xdr(buf)
        size == p.val
        len  == size
        to   == Add(len, Nat64(4))
        read == Add(Nat64(4), size)
    IN  IF ~IsOk(p) THEN p
        ELSE IF Lt(buf.len, len) THEN Err("StringBadFormat")
        ELSE IF SliceFails(buf, Nat64(4), to) THEN Panic("index")
        ELSE IF ~from_utf8_ok(Slice(buf, Nat64(4), to)) THEN Panic("unwrap")
        ELSE Ok(Slice(buf, Nat64(4), to), pad_u64(read))

\* impl XDRIn for Vec<u8>
VecU8_read_xdr(buf) ==
    LET p    == u32_read_xdr(buf)
        len  == p.val
        size == len
        to   == Add(size, Nat64(4))
        read == Add(Nat64(4), size)
    IN  IF ~IsOk(p) THEN p
        ELSE IF SliceFails(buf, Nat64(4), to) THEN Panic("index")
        ELSE Ok(Slice(buf, Nat64(4), to), pad_u64(read))

\* read_fixed_opaque
read_fixed_opaque(size, buf) ==
    LET sum         == Add(Nat64((4 - Mod4(size)) % 4), size)
        padded_size == WrapU32(sum)
    IN  IF ~FitsU32(sum) /\ overflow_checks THEN Panic("overflow")
        ELSE IF Lt(buf.len, padded_size) THEN Err("BadArraySize")
        ELSE IF SliceFails(buf, Zero, size) THEN Panic("index")
        ELSE Ok(Slice(buf, Zero, size), padded_size)

\* read_var_opaque
read_var_opaque(max_size, buf) ==
    LET p      == u32_read_xdr(buf)
        length == p.val
        r      == read_fixed_opaque(length, Slice(buf, Nat64(4), buf.len))
    IN  IF ~IsOk(p) THEN p
        ELSE IF Lt(max_size, length) THEN Err("BadArraySize")
        ELSE IF ~IsOk(r) THEN r
        ELSE Ok(r.val, Add(r.read, Nat64(4)))

\* read_var_string
read_var_string(max_size, buf) ==
    LET p      == u32_read_xdr(buf)
        length == p.val
    IN  IF ~IsOk(p) THEN p
        ELSE IF Lt(max_size, length) THEN Err("VarArrayWrongSize")
        ELSE String_read_xdr(buf)

----------------------------------------------------------------------------
(* Arrays *)

\* the element types T the array decoders are instantiated with
ElemTypes == {"u32", "i64", "VecU8"}

\* T::read_xdr
T_read_xdr(T, buf) ==
    CASE T = "u32" -> u32_read_xdr(buf)
      [] T = "i64" -> i64_read_xdr(buf)
      [] T = "VecU8" -> VecU8_read_xdr(buf)

\* the loop of Vec<T>::read_xdr advancing by 4 bytes per element (read += 4)
RECURSIVE VecT_loop_fixed_step(_, _, _, _, _, _)
VecT_loop_fixed_step(T, buf, size, i, read, res) ==
    IF Nat64(i) = size THEN Ok(res, read)
    ELSE IF SliceFails(buf, read, buf.len) THEN Panic("index")
    ELSE LET t_read == T_read_xdr(T, Slice(buf, read, buf.len))
         IN  IF ~IsOk(t_read) THEN t_read
             ELSE VecT_loop_fixed_step(T, buf, size, i + 1, Add(read, Nat64(4)),
                                       Append(res, t_read.val))

\* the loop of Vec<T>::read_xdr, before iteration i
RECURSIVE VecT_loop(_, _, _, _, _, _)
VecT_loop(T, buf, size, i, read, res) ==
    IF Nat64(i) = size THEN Ok(res, read)
    ELSE IF SliceFails(buf, read, buf.len) THEN Panic("index")
    ELSE LET t_read == T_read_xdr(T, Slice(buf, read, buf.len))
         IN  IF ~IsOk(t_read) THEN t_read
             ELSE VecT_loop(T, buf, size, i + 1, Add(read, t_read.read),
                            Append(res, t_read.val))

\* impl<T> XDRIn for Vec<T>
VecT_read_xdr(T, buf) ==
    LET p == u32_read_xdr(buf)
    IN  IF ~IsOk(p) THEN p
        ELSE VecT_loop(T, buf, p.val, 0, Nat64(4), <<>>)

\* the loop of read_fixed_array, before iteration i
RECURSIVE fixed_array_loop(_, _, _, _, _, _)
fixed_array_loop(T, buf, size, i, read, res) ==
    IF Nat64(i) = size THEN Ok(res, read)
    ELSE IF SliceFails(buf, read, buf.len) THEN Panic("index")
    ELSE LET t_res == T_read_xdr(T, Slice(buf, read, buf.len))
         IN  IF ~IsOk(t_res) THEN t_res
             ELSE fixed_array_loop(T, buf, size, i + 1, Add(read, t_res.read),
                                   Append(res, t_res.val))

\* read_fixed_array
read_fixed_array(T, size, buf) == fixed_array_loop(T, buf, size, 0, Zero, <<>>)

\* read_var_array
read_var_array(T, size, buf) ==
    LET p      == u32_read_xdr(buf)
        length == p.val
        r      == read_fixed_array(T, length, Slice(buf, Nat64(4), buf.len))
    IN  IF ~IsOk(p) THEN p
        ELSE IF Lt(size, length) THEN Err("BadArraySize")
        ELSE IF ~IsOk(r) THEN r
        ELSE Ok(r.val, Add(r.read, Nat64(4)))

----------------------------------------------------------------------------
(* Derived decoders of the test types (#[derive(XDRIn)]) *)

\* struct TestStruct { one: f32, two: u32 }
TestStruct_read_xdr(buf) ==
    LET one == f32_read_xdr(buf)
        two == u32_read_xdr(Slice(buf, one.read, buf.len))
    IN  IF ~IsOk(one) THEN one
        ELSE IF ~IsOk(two) THEN two
        ELSE Ok([one |-> one.val, two |-> two.val], Add(one.read, two.read))

\* enum TestEnum { Zero = 0, One = 1, Two = 2 }
TestEnum_read_xdr(buf) ==
    LET d == i32_read_xdr(buf)
    IN  IF ~IsOk(d) THEN d
        ELSE IF d.val = 0 THEN Ok("Zero", d.read)
        ELSE IF d.val = 1 THEN Ok("One", d.read)
        ELSE IF d.val = 2 THEN Ok("Two", d.read)
        ELSE Err("InvalidEnumValue")

\* enum TestUnion { First(u32), Second(TestStruct), Third(()) }
TestUnion_read_xdr(buf) ==
    LET d    == i32_read_xdr(buf)
        rest == Slice(buf, d.read, buf.len)
        pay  == CASE d.val = 0 -> u32_read_xdr(rest)
                  [] d.val = 1 -> TestStruct_read_xdr(rest)
                  [] d.val = 2 -> unit_read_xdr(rest)
        name == CASE d.val = 0 -> "First"
                  [] d.val = 1 -> "Second"
                  [] d.val = 2 -> "Third"
    IN  IF ~IsOk(d) THEN d
        ELSE IF d.val \notin {0, 1, 2} THEN Err("InvalidEnumValue")
        ELSE IF ~IsOk(pay) THEN pay
        ELSE Ok([variant |-> name, payload |-> pay.val], Add(d.read, pay.read))

----------------------------------------------------------------------------
(* Inputs *)

\* 2^32
Huge == <<0, 0, 1, 0>>

U32Max == <<65535, 65535, 0, 0>>

\* the 4-byte groups the slices are made of: the lengths 0, 1, 2, 5 and 8,
\* 0xFFFFFFFF (an invalid UTF-8 payload too), "hell" and "éhi"
Words ==
    { <<0, 0, 0, 0>>, <<0, 0, 0, 1>>, <<0, 0, 0, 2>>, <<0, 0, 0, 5>>,
      <<0, 0, 0, 8>>, <<255, 255, 255, 255>>, <<104, 101, 108, 108>>,
      <<195, 169, 104, 105>> }

\* the first n bytes of the groups ws laid end to end
Bytes(ws, n) == [i \in 1..n |-> ws[((i - 1) \div 4) + 1][((i - 1) % 4) + 1]]

\* sizes and counts passed to read_fixed_opaque
Sizes ==
    { Zero, Nat64(1), Nat64(4), Nat64(5), Nat64(8),
      <<65532, 65535, 0, 0>>, <<65533, 65535, 0, 0>>, U32Max }

\* maxima passed to read_var_opaque, read_var_array and read_var_string
Maxima == { Zero, Nat64(2), Nat64(5), U32Max }

\* counts passed to read_fixed_array
Counts == { Zero, Nat64(1), Nat64(2), Nat64(3) }

NoCall == [op |-> "none", T |-> "", arg |-> Zero]

NoResult == [tag |-> "None"]

Init ==
    /\ \E n \in 0..MaxLen :
         \E ws \in [1..((n + 3) \div 4) -> Words] :
           \E tail \in {Zero, Huge} :
             /\ tail = Huge => n <= MaxHugeHead
             /\ buffer = MkBuf(Bytes(ws, n), Add(Nat64(n), tail))
    /\ overflow_checks \in BOOLEAN
    /\ call = NoCall
    /\ result = NoResult

----------------------------------------------------------------------------
(* One action per decoder: a caller calls it on the slice *)

Ready == call = NoCall

\* the array decoders run on slices of at most MaxLen bytes
Short == Le(buffer.len, Nat64(MaxLen))

\* a returned value is kept with the type it was decoded as: Ok((0i32, 4))
\* and Ok((0u32, 4)) are results of different types
Return(op, T, arg, r) ==
    /\ call' = [op |-> op, T |-> T, arg |-> arg]
    /\ result' = IF IsOk(r) THEN Ok(<<op, T, r.val>>, r.read) ELSE r
    /\ UNCHANGED <<buffer, overflow_checks>>

Call_unit == Ready /\ Return("unit", "", Zero, unit_read_xdr(buffer))

Call_bool == Ready /\ Return("bool", "", Zero, bool_read_xdr(buffer))

Call_i32 == Ready /\ Return("i32", "", Zero, i32_read_xdr(buffer))

Call_u32 == Ready /\ Return("u32", "", Zero, u32_read_xdr(buffer))

Call_i64 == Ready /\ Return("i64", "", Zero, i64_read_xdr(buffer))

Call_u64 == Ready /\ Return("u64", "", Zero, u64_read_xdr(buffer))

Call_f32 == Ready /\ Return("f32", "", Zero, f32_read_xdr(buffer))

Call_f64 == Ready /\ Return("f64", "", Zero, f64_read_xdr(buffer))

Call_String == Ready /\ Return("String", "", Zero, String_read_xdr(buffer))

Call_VecU8 == Ready /\ Return("VecU8", "", Zero, VecU8_read_xdr(buffer))

Call_VecT ==
    /\ Ready /\ Short
    /\ \E T \in ElemTypes : Return("VecT", T, Zero, VecT_read_xdr(T, buffer))

Call_read_fixed_array ==
    /\ Ready /\ Short
    /\ \E T \in ElemTypes, size \in Counts :
         Return("read_fixed_array", T, size, read_fixed_array(T, size, buffer))

Call_read_var_array ==
    /\ Ready /\ Short
    /\ \E T \in ElemTypes, size \in Maxima :
         Return("read_var_array", T, size, read_var_array(T, size, buffer))

Call_read_var_opaque ==
    /\ Ready
    /\ \E max_size \in Maxima :
         Return("read_var_opaque", "", max_size, read_var_opaque(max_size, buffer))

Call_read_fixed_opaque ==
    /\ Ready
    /\ \E size \in Sizes :
         Return("read_fixed_opaque", "", size, read_fixed_opaque(size, buffer))

Call_read_var_string ==
    /\ Ready
    /\ \E max_size \in Maxima :
         Return("read_var_string", "", max_size, read_var_string(max_size, buffer))

Call_TestEnum == Ready /\ Return("TestEnum", "", Zero, TestEnum_read_xdr(buffer))

Call_TestUnion == Ready /\ Return("TestUnion", "", Zero, TestUnion_read_xdr(buffer))

Next ==
    \/ Call_unit
    \/ Call_bool
    \/ Call_i32
    \/ Call_u32
    \/ Call_i64
    \/ Call_u64
    \/ Call_f32
    \/ Call_f64
    \/ Call_String
    \/ Call_VecU8
    \/ Call_VecT
    \/ Call_read_fixed_array
    \/ Call_read_var_array
    \/ Call_read_var_opaque
    \/ Call_read_fixed_opaque
    \/ Call_read_var_string
    \/ Call_TestEnum
    \/ Call_TestUnion

Spec == Init /\ [][Next]_vars

----------------------------------------------------------------------------
(* Vocabulary of the properties *)

Succeeded == result.tag = "Ok"

Panicked == result.tag = "Panic"

Failed(e) == result = Err(e)

\* the decoded value of a successful call
Value == result.val[3]

\* the call returned Ok((v, n))
Returned(v, n) == result = Ok(<<call.op, call.T, v>>, n)

\* the slice holds at least n bytes
Holds(n) == Le(n, buffer.len)

\* the length prefix on the wire: the first four bytes, big-endian
WireLen == <<At(buffer, 2) * 256 + At(buffer, 3), At(buffer, 0) * 256 + At(buffer, 1), 0, 0>>

\* n rounded up to the next multiple of 4, as a mathematical number
RoundUp4(n) == Add(n, Nat64((4 - Mod4(n)) % 4))

\* v is the n bytes of the slice that start at byte off
SameBytes(v, off, n) ==
    /\ v.len = n
    /\ Len(v.head) <= MaxLen
    /\ \A i \in 0..MaxLen : Lt(Nat64(i), n) => At(v, i) = At(buffer, i + off)

\* byte k of the number v, counted from the least significant one
Digit(v, k) ==
    LET limb == v[(k \div 2) + 1]
    IN  IF k % 2 = 0 THEN limb % 256 ELSE limb \div 256

\* byte k of the two's complement form of the integer v
SDigit(v, k) ==
    CASE k = 0 -> v % 256
      [] k = 1 -> (v \div 256) % 256
      [] k = 2 -> (v \div 65536) % 256
      [] k = 3 -> (v \div 16777216) % 256

Decoders ==
    { "unit", "bool", "i32", "u32", "i64", "u64", "f32", "f64", "String",
      "VecU8", "VecT", "read_fixed_opaque", "read_var_opaque",
      "read_fixed_array", "read_var_array", "read_var_string" }

----------------------------------------------------------------------------
(* C1: whenever a decoder succeeds, the count of bytes it reports as       *)
(* consumed is at most the length of the slice it was given.               *)
C1_ConsumedWithinBuffer ==
    (call.op \in Decoders /\ Succeeded) => Le(result.read, buffer.len)

(* C2: every decode call returns a (value, consumed) pair or a typed       *)
(* error; none aborts on a slice index out of range or on an unwrap.       *)
C2_Total == call.op \in Decoders => ~Panicked

(* C3: padding law.  Whenever Vec<u8>::read_xdr, read_var_opaque or        *)
(* String::read_xdr succeeds on a slice whose length prefix is L, the      *)
(* value is the L bytes after the prefix and the consumed count is         *)
(* 4 + L rounded up to the next multiple of 4.                             *)
C3_PaddingLaw ==
    (call.op \in {"VecU8", "read_var_opaque", "String"} /\ Succeeded) =>
        /\ SameBytes(Value, 4, WireLen)
        /\ result.read = Add(Nat64(4), RoundUp4(WireLen))

Width(T) == IF T = "i64" THEN 8 ELSE 4

\* the length prefix at byte off of the slice
WireLenAt(off) ==
    <<At(buffer, off + 2) * 256 + At(buffer, off + 3),
      At(buffer, off) * 256 + At(buffer, off + 1), 0, 0>>

\* k complete padded opaque values lie in the slice from byte off on
RECURSIVE OpaquesFit(_, _)
OpaquesFit(off, k) ==
    \/ k = 0
    \/ /\ Holds(Nat64(off + 4))
       /\ Holds(Add(Nat64(off + 4), RoundUp4(WireLenAt(off))))
       /\ OpaquesFit(off + 4 + ToNat(RoundUp4(WireLenAt(off))), k - 1)

\* the slice holds the prefix and n well-formed elements of type T
ElementsFit(T, n) ==
    /\ Le(n, Nat64(MaxLen))
    /\ IF T = "VecU8" THEN OpaquesFit(4, ToNat(n))
       ELSE Holds(Nat64(4 + Width(T) * ToNat(n)))

(* C4: bound law.  With a length prefix n on the wire and a maximum m,     *)
(* read_var_array and read_var_opaque fail with BadArraySize and           *)
(* read_var_string fails with VarArrayWrongSize whenever n > m, whatever   *)
(* the payload; whenever n <= m and the slice holds the whole padded       *)
(* payload, or n well-formed elements, the call succeeds with a value of   *)
(* length n.                                                               *)
C4_BoundLaw ==
    LET n == WireLen
        m == call.arg
    IN  /\ (call.op = "read_var_array" /\ Holds(Nat64(4))) =>
              /\ Lt(m, n) => Failed("BadArraySize")
              /\ (Le(n, m) /\ ElementsFit(call.T, n)) =>
                     Succeeded /\ Nat64(Len(Value)) = n
        /\ (call.op = "read_var_opaque" /\ Holds(Nat64(4))) =>
              /\ Lt(m, n) => Failed("BadArraySize")
              /\ (Le(n, m) /\ Holds(Add(Nat64(4), RoundUp4(n)))) =>
                     Succeeded /\ Value.len = n
        /\ (call.op = "read_var_string" /\ Holds(Nat64(4))) =>
              /\ Lt(m, n) => Failed("VarArrayWrongSize")
              /\ (Le(n, m) /\ Holds(Add(Nat64(4), RoundUp4(n)))) =>
                     Succeeded /\ Value.len = n

ScalarWidth ==
    [bool |-> 4, i32 |-> 4, u32 |-> 4, f32 |-> 4, i64 |-> 8, u64 |-> 8, f64 |-> 8]

ScalarError ==
    [bool |-> "BoolBadFormat", i32 |-> "IntegerBadFormat",
     u32 |-> "UnsignedIntegerBadFormat", f32 |-> "FloatBadFormat",
     i64 |-> "HyperBadFormat", u64 |-> "UnsignedHyperBadFormat",
     f64 |-> "DoubleBadFormat"]

(* C5: on a slice shorter than the width of a scalar type (4 bytes for     *)
(* bool, i32, u32, f32; 8 bytes for i64, u64, f64), read_xdr fails with    *)
(* the error of that type; bool reports BoolBadFormat, not the             *)
(* IntegerBadFormat of the i32 decoder it calls.                           *)
C5_ShortBufferError ==
    (call.op \in DOMAIN ScalarWidth /\ ~Holds(Nat64(ScalarWidth[call.op]))) =>
        Failed(ScalarError[call.op])

C5_Witness ==
    /\ call.op = "bool"
    /\ buffer = MkBuf(<<0, 0, 0>>, Nat64(3))
    /\ Failed("BoolBadFormat")

(* C6: on a slice of at least the width of the type, i32 and u32 return    *)
(* the big-endian value of bytes 0..3 and the count 4, i64 and u64 the     *)
(* big-endian value of bytes 0..7 and the count 8 (signed types in two's   *)
(* complement), ignoring the bytes that follow; bool returns (true, 4)     *)
(* exactly when the four bytes encode 1, (false, 4) exactly when they      *)
(* encode 0 and BoolBadFormat otherwise; () always returns ((), 0).        *)
C6_BigEndianScalars ==
    /\ (call.op = "u32" /\ Holds(Nat64(4))) =>
          /\ Succeeded /\ result.read = Nat64(4) /\ FitsU32(Value)
          /\ \A k \in 0..3 : Digit(Value, k) = At(buffer, 3 - k)
    /\ (call.op = "i32" /\ Holds(Nat64(4))) =>
          /\ Succeeded /\ result.read = Nat64(4)
          /\ \A k \in 0..3 : SDigit(Value, k) = At(buffer, 3 - k)
    /\ (call.op = "u64" /\ Holds(Nat64(8))) =>
          /\ Succeeded /\ result.read = Nat64(8)
          /\ \A k \in 0..7 : Digit(Value, k) = At(buffer, 7 - k)
    /\ (call.op = "i64" /\ Holds(Nat64(8))) =>
          /\ Succeeded /\ result.read = Nat64(8) /\ FitsU32(Value.lo)
          /\ \A k \in 0..3 : Digit(Value.lo, k) = At(buffer, 7 - k)
          /\ \A k \in 0..3 : SDigit(Value.hi, k) = At(buffer, 3 - k)
    /\ (call.op = "bool" /\ Holds(Nat64(4))) =>
          CASE arr4(buffer) = <<0, 0, 0, 1>> -> Returned(TRUE, Nat64(4))
            [] arr4(buffer) = <<0, 0, 0, 0>> -> Returned(FALSE, Nat64(4))
            [] OTHER -> Failed("BoolBadFormat")
    /\ call.op = "unit" => Returned("()", Zero)

C6_Witness ==
    /\ call.op = "i64"
    /\ buffer.head = <<255, 255, 255, 255, 0, 0, 0, 2, 104, 101, 108, 108>>
    /\ Returned([hi |-> -1, lo |-> Nat64(2)], Nat64(8))

(* C7: String::read_xdr, and read_var_string when the length is within     *)
(* its maximum, fail with StringBadFormat on every slice that holds a      *)
(* length prefix L but fewer than 4 + L bytes; they succeed only when the  *)
(* L payload bytes are present.                                            *)
C7_StringTruncated ==
    LET within == call.op = "String"
                  \/ (call.op = "read_var_string" /\ Le(WireLen, call.arg))
    IN  (within /\ Holds(Nat64(4))) =>
            /\ ~Holds(Add(Nat64(4), WireLen)) => Failed("StringBadFormat")
            /\ Succeeded => Holds(Add(Nat64(4), WireLen))

Discriminant == IF arr4(buffer) \in {<<0, 0, 0, 0>>, <<0, 0, 0, 1>>, <<0, 0, 0, 2>>}
                THEN At(buffer, 3) ELSE 3

(* C8: enum/union law of the derived decoders.  TestEnum and TestUnion     *)
(* fail with InvalidEnumValue for every 4-byte wire integer other than 0,  *)
(* 1 and 2, whatever follows; for a valid discriminant the union decodes   *)
(* the payload of the selected variant from the bytes after the            *)
(* discriminant, reports 4 plus the count of the payload, and returns the  *)
(* error of the payload decoder unchanged.                                 *)
C8_EnumUnionLaw ==
    /\ (call.op = "TestEnum" /\ Holds(Nat64(4))) =>
          CASE Discriminant = 0 -> Returned("Zero", Nat64(4))
            [] Discriminant = 1 -> Returned("One", Nat64(4))
            [] Discriminant = 2 -> Returned("Two", Nat64(4))
            [] OTHER -> Failed("InvalidEnumValue")
    /\ (call.op = "TestUnion" /\ Holds(Nat64(4))) =>
          CASE Discriminant = 0 ->
                 IF ~Holds(Nat64(8)) THEN Failed("UnsignedIntegerBadFormat")
                 ELSE /\ Succeeded /\ result.read = Nat64(8)
                      /\ Value.variant = "First"
                      /\ \A k \in 0..3 : Digit(Value.payload, k) = At(buffer, 7 - k)
            [] Discriminant = 1 ->
                 IF ~Holds(Nat64(8)) THEN Failed("FloatBadFormat")
                 ELSE IF ~Holds(Nat64(12)) THEN Failed("UnsignedIntegerBadFormat")
                 ELSE /\ Succeeded /\ result.read = Nat64(12)
                      /\ Value.variant = "Second"
                      /\ \A k \in 0..3 :
                           /\ Digit(Value.payload.one.bits, k) = At(buffer, 7 - k)
                           /\ Digit(Value.payload.two, k) = At(buffer, 11 - k)
            [] Discriminant = 2 ->
                 Returned([variant |-> "Third", payload |-> "()"], Nat64(4))
            [] OTHER -> Failed("InvalidEnumValue")

C8_Witness ==
    /\ call.op = "TestUnion"
    /\ buffer.head = <<0, 0, 0, 5, 104, 101, 108, 108, 0, 0, 0, 2>>
    /\ Failed("InvalidEnumValue")

(* C9: for every 32-bit size, read_fixed_opaque(size, buffer) takes the     *)
(* padded length to be size rounded up to the next multiple of 4, without  *)
(* wrap-around; it fails with BadArraySize when the slice is shorter than  *)
(* the padded length and otherwise returns the first size bytes and the    *)
(* padded length as the count; size 0 reads nothing.  The same holds for   *)
(* a size that arrives as the wire length of read_var_opaque.              *)
C9_FixedOpaquePadding ==
    /\ call.op = "read_fixed_opaque" =>
          IF ~Holds(RoundUp4(call.arg)) THEN Failed("BadArraySize")
          ELSE /\ Succeeded
               /\ SameBytes(Value, 0, call.arg)
               /\ result.read = RoundUp4(call.arg)
    /\ (call.op = "read_var_opaque" /\ Holds(Nat64(4)) /\ Le(WireLen, call.arg)) =>
          IF ~Holds(Add(Nat64(4), RoundUp4(WireLen))) THEN Failed("BadArraySize")
          ELSE /\ Succeeded
               /\ SameBytes(Value, 4, WireLen)
               /\ result.read = Add(Nat64(4), RoundUp4(WireLen))


\* the offset in the slice of element i: base plus the counts of 0..i-1
RECURSIVE ElemOffset(_, _, _)
ElemOffset(T, base, i) ==
    IF i = 0 THEN Nat64(base)
    ELSE LET o == ElemOffset(T, base, i - 1)
         IN  Add(o, T_read_xdr(T, Slice(buffer, o, buffer.len)).read)

\* what T's decoder does on the slice that starts at element i's offset
ElemResult(T, base, i) ==
    T_read_xdr(T, Slice(buffer, ElemOffset(T, base, i), buffer.len))

\* elements 0..k-1 decode successfully, each from a slice inside the buffer
ElemsOk(T, base, k) ==
    \A j \in 0..(k - 1) :
        Holds(ElemOffset(T, base, j)) /\ IsOk(ElemResult(T, base, j))

InOrder(T, base, count) ==
    /\ Succeeded =>
          /\ Nat64(Len(Value)) = count
          /\ ElemsOk(T, base, Len(Value))
          /\ \A i \in 1..Len(Value) : Value[i] = ElemResult(T, base, i - 1).val
          /\ result.read = ElemOffset(T, base, Len(Value))
    /\ result.tag = "Err" =>
          \E k \in 0..MaxLen :
              /\ Lt(Nat64(k), count)
              /\ ElemsOk(T, base, k)
              /\ Holds(ElemOffset(T, base, k))
              /\ ElemResult(T, base, k) = result

(* C10: read_fixed_array and Vec<T>::read_xdr (and read_var_array within   *)
(* its maximum) decode their elements in order at consecutive offsets:     *)
(* element i is decoded from the slice that starts at the sum of the       *)
(* counts of elements 0..i-1, plus 4 for the count prefix of the prefixed  *)
(* forms.  A successful call returns exactly count elements and the sum    *)
(* of their counts (plus 4); a failed call returns the error of the first  *)
(* failing element unchanged; Vec<T>::read_xdr puts no bound on the wire   *)
(* count.                                                                  *)
C10_ElementsInOrder ==
    /\ call.op = "read_fixed_array" => InOrder(call.T, 0, call.arg)
    /\ (call.op = "VecT" /\ Holds(Nat64(4))) => InOrder(call.T, 4, WireLen)
    /\ (call.op = "read_var_array" /\ Holds(Nat64(4)) /\ Le(WireLen, call.arg)) =>
          InOrder(call.T, 4, WireLen)

C10_Witness ==
    /\ call.op = "VecT" /\ call.T = "i64"
    /\ buffer.head = <<0, 0, 0, 1, 255, 255, 255, 255, 0, 0, 0, 8>>
    /\ Returned(<<[hi |-> -1, lo |-> Nat64(8)]>>, Nat64(12))

====
